---- MODULE Spec2Model ----
(***************************************************************************)
(* A model of responder.api.API (src/responder/api.py): the route table,   *)
(* the handler-shape cascade of _dispatch_request, the WSGI entry points,  *)
(* the mount table, reverse lookup (url_for) and the cached test session.  *)
(*                                                                         *)
(* Python objects (handlers, views, sub-applications, sessions) are named  *)
(* by strings; what an object does when the dispatcher probes it is given  *)
(* by the capability operators below, one per probe the code performs.     *)
(* The interpreter is taken with its default flags: assert statements are  *)
(* executed (lines 103 and 135 rely on them).                              *)
(***************************************************************************)
EXTENDS Integers, Sequences, FiniteSets, TLC

VARIABLES
    routes,      \* self.routes: insertion-ordered dict, a sequence of <<route, view>>
    apps,        \* self.apps: mount prefix -> WSGI callable
    _session,    \* self._session
    registered,  \* history: every <<route, view>> pair add_route ever stored
    adds,        \* history: number of add_route calls made so far
    last,        \* observation of the last completed API call
    pc,          \* per caller of session(): position inside the method
    base_url,    \* per caller of session(): the argument `base_url`
    session,     \* per caller of session(): the local variable `session`
    returned,    \* per caller of session(): value of the last return
    created      \* history: number of RequestsSession objects constructed

vars ==
    <<routes, apps, _session, registered, adds, last, pc, base_url, session,
      returned, created>>

None == "None"

\* ---------------------------------------------------------------- bounds

\* add_route calls made before and while serving.
MaxAdds == 3

\* ------------------------------------------------------------- constants

HTTP_404 == 404

\* ------------------------------------------------------- the input space

\* Routes handed to add_route, and the paths of inbound requests.  Request
\* paths come from the transport and always start with "/".
Paths == {"/", "/about"}
ReqPaths == Paths \cup {"/missing"}
Methods == {"GET", "POST"}

\* The objects registered as views.
\*   hello, goodbye      def f(req, resp): resp.text = ...
\*   raises_type_error   def f(req, resp): raise TypeError
\*   raises_value_error  def f(req, resp): raise ValueError
\*   Resource            a class; Resource() has on_request, on_get, on_post
\*   resource            a non-callable instance with on_request, on_get, on_post
\*   post_only           a non-callable instance with on_post only
\*   flaky_view          instance whose on_request body raises AttributeError
\*   broken_view         instance whose on_request body raises ValueError
\*   schema              a GraphQL schema object (has execute), not callable
\*   SchemaFactory       a class; SchemaFactory() is a GraphQL schema object
\*   schema_view         an object with execute and with on_request, on_get
\*   wsgi_app            a WSGI application callable as f(environ=, start_response=)
\*   wsgi_view           a WSGI application that also carries on_request, on_get
Functions == {"hello", "goodbye", "raises_type_error", "raises_value_error"}
Handlers ==
    Functions \cup
    {"Resource", "resource", "post_only", "flaky_view", "broken_view",
     "schema", "SchemaFactory", "schema_view", "wsgi_app", "wsgi_view"}
RouterHandlers == {"hello", "goodbye", "resource"}

\* h(req, resp) binds: the object is callable with two positional arguments.
Accepts2(h) == h \in Functions

\* What the body of h does once h(req, resp) has bound its arguments.
Body2(h) ==
    CASE h = "raises_type_error" -> "TypeError"
      [] h = "raises_value_error" -> "ValueError"
      [] OTHER -> None

\* h() : the instance a zero-argument factory returns, None (the string) when
\* h() raises TypeError (not callable, or arguments missing).
Factory(h) ==
    CASE h = "Resource" -> "Resource()"
      [] h = "SchemaFactory" -> "SchemaFactory()"
      [] OTHER -> None

\* hasattr(v, "execute")
HasExecute(v) == v \in {"schema", "SchemaFactory()", "schema_view"}

\* v(environ=..., start_response=...): the iterable the sub-application
\* returns, None (the string) when the call raises TypeError.
WsgiResult(v) ==
    CASE v = "wsgi_app" -> "app_iter"
      [] v = "wsgi_view" -> "view_iter"
      [] OTHER -> None

\* The hook attributes of a view, and what each hook's body does when called.
HookNames == {"on_request", "on_get", "on_post"}
Hooks(v) ==
    CASE v \in {"Resource()", "resource", "flaky_view", "broken_view"} -> HookNames
      [] v \in {"schema_view", "wsgi_view"} -> {"on_request", "on_get"}
      [] v = "post_only" -> {"on_post"}
      [] OTHER -> {}
HookBody(v, name) ==
    CASE v = "flaky_view" /\ name = "on_request" -> "AttributeError"
      [] v = "broken_view" /\ name = "on_request" -> "ValueError"
      [] OTHER -> None

\* str.lower() on the HTTP method, and the f-string f"on_{method}".
Lower(m) ==
    CASE m = "GET" -> "get"
      [] m = "POST" -> "post"
      [] OTHER -> m
HookFor(method) == "on_" \o Lower(method)

\* ------------------------------------------------------------- requests

\* What models.Request exposes to this file: path, method, and the fields
\* _resolve_graphql_query reads.  A mapping is a function on its keys.
EmptyMap == [k \in {} |-> None]
Bodies == {"text", "json_empty", "form"}
Request(path, method, body) ==
    [path |-> path,
     method |-> method,
     body |-> body,
     mimetype |-> CASE body = "json_empty" -> "application/json"
                    [] body = "form" -> "application/x-www-form-urlencoded"
                    [] OTHER -> "text/plain",
     json |-> EmptyMap,
     data_is_str |-> body # "form",
     data |-> IF body = "form" THEN [q |-> "{form}"] ELSE EmptyMap,
     params |-> EmptyMap,
     text |-> IF body = "text" THEN "{text}" ELSE ""]

\* "json" in req.mimetype
JsonMimetypes == {"application/json"}

\* models.Response(req=req): a fresh response, in its default state.
Response(req) == [status_code |-> HTTP_404, text |-> None, media |-> None]

\* ---------------------------------------------------------- route table

RECURSIVE IndexOf(_, _, _)
IndexOf(rts, route, i) ==
    IF i > Len(rts) THEN 0
    ELSE IF rts[i][1] = route THEN i
    ELSE IndexOf(rts, route, i + 1)

\* route in self.routes
HasRoute(rts, route) == IndexOf(rts, route, 1) # 0

\* self.routes[route]
Lookup(rts, route) == rts[IndexOf(rts, route, 1)][2]

\* self.routes[route] = view: a new key goes last, an existing key keeps its place.
SetItem(rts, route, view) ==
    IF HasRoute(rts, route)
    THEN [rts EXCEPT ![IndexOf(rts, route, 1)] = <<route, view>>]
    ELSE Append(rts, <<route, view>>)

\* Python truthiness of the value path_matches_route returns (None or a str).
Truthy(x) == x # None /\ x # ""

RECURSIVE path_matches_route_from(_, _, _)
path_matches_route_from(rts, url, i) ==
    IF i > Len(rts) THEN None
    ELSE IF url = rts[i][1] THEN rts[i][1]
    ELSE path_matches_route_from(rts, url, i + 1)

\* A matcher that returns the first route of the table whatever the url.
path_matches_route_first(rts, url) == IF Len(rts) = 0 THEN None ELSE rts[1][1]

path_matches_route(rts, url) == path_matches_route_from(rts, url, 1)

RECURSIVE url_for_from(_, _, _)
url_for_from(rts, view, i) ==
    IF i > Len(rts) THEN [raised |-> "ValueError", ret |-> None]
    ELSE IF view = rts[i][2] THEN [raised |-> None, ret |-> rts[i][1]]
    ELSE url_for_from(rts, view, i + 1)

\* A reverse lookup that keeps scanning and returns the last matching route.
RECURSIVE url_for_last_from(_, _, _)
url_for_last_from(rts, view, i) ==
    IF i < 1 THEN [raised |-> "ValueError", ret |-> None]
    ELSE IF view = rts[i][2] THEN [raised |-> None, ret |-> rts[i][1]]
    ELSE url_for_last_from(rts, view, i - 1)
url_for_last(rts, view) == url_for_last_from(rts, view, Len(rts))

url_for(rts, view) == url_for_from(rts, view, 1)

\* ------------------------------------------------------------- dispatch

\* The running state of one dispatch: the calls made into user objects, in
\* order, the response being built, and req.dispatched.
Start(req) == [calls |-> <<>>, resp |-> Response(req), dispatched |-> FALSE]
Called(st, obj, how) == [st EXCEPT !.calls = Append(@, <<obj, how>>)]

\* How a dispatch ends: `return value`, or an exception leaving the method.
Returns(value, st) ==
    [raised |-> None, ret |-> value, calls |-> st.calls, resp |-> st.resp,
     dispatched |-> st.dispatched]
Raises(exc, st) ==
    [raised |-> exc, ret |-> None, calls |-> st.calls, resp |-> st.resp,
     dispatched |-> st.dispatched]

default_response(st) ==
    [st EXCEPT !.resp = [@ EXCEPT !.status_code = HTTP_404, !.text = "Not found."]]

_resolve_graphql_query(req) ==
    IF req.mimetype \in JsonMimetypes
    THEN IF "query" \in DOMAIN req.json
         THEN [raised |-> None, ret |-> req.json["query"]]
         ELSE [raised |-> "KeyError", ret |-> None]
    ELSE IF ~req.data_is_str /\ "query" \in DOMAIN req.data
    THEN [raised |-> None, ret |-> req.data["query"]]
    ELSE IF ~req.data_is_str /\ "q" \in DOMAIN req.data
    THEN [raised |-> None, ret |-> req.data["q"]]
    ELSE IF "query" \in DOMAIN req.params
    THEN [raised |-> None, ret |-> req.params["query"][1]]
    ELSE IF "q" \in DOMAIN req.params
    THEN [raised |-> None, ret |-> req.params["q"][1]]
    ELSE [raised |-> None, ret |-> req.text]

\* graphql_response: resolve the query, run schema.execute(query) and store
\* the decoded result in resp.media.
graphql_response(req, st, schema) ==
    LET q == _resolve_graphql_query(req)
    IN  IF q.raised # None
        THEN [raised |-> q.raised, st |-> st]
        ELSE [raised |-> None,
              st |-> [Called(st, schema, "execute")
                        EXCEPT !.resp = [@ EXCEPT !.media = <<schema, q.ret>>]]]

\* getattr(view, name)(req, resp) inside try ... except AttributeError: pass
CallHook(view, name, st) ==
    IF name \notin Hooks(view)
    THEN [raised |-> None, st |-> st]
    ELSE LET st1 == Called(st, view, name)
         IN  IF HookBody(view, name) \in {None, "AttributeError"}
             THEN [raised |-> None, st |-> st1]
             ELSE [raised |-> HookBody(view, name), st |-> st1]

\* The two hook calls in the opposite order: on_<method>, then on_request.
RunHooks_method_first(view, req, st) ==
    LET r1 == CallHook(view, HookFor(req.method), st)
    IN  IF r1.raised # None
        THEN Raises(r1.raised, r1.st)
        ELSE LET r2 == CallHook(view, "on_request", r1.st)
             IN  IF r2.raised # None
                 THEN Raises(r2.raised, r2.st)
                 ELSE Returns("resp", r2.st)

\* Lines 115-127 and the final return: on_request, then on_<method>.
RunHooks(view, req, st) ==
    LET r1 == CallHook(view, "on_request", st)
    IN  IF r1.raised # None
        THEN Raises(r1.raised, r1.st)
        ELSE LET r2 == CallHook(view, HookFor(req.method), r1.st)
             IN  IF r2.raised # None
                 THEN Raises(r2.raised, r2.st)
                 ELSE Returns("resp", r2.st)

\* Lines 100-113: the handler itself is the view.
HandlerAsView(view, req, st) ==
    IF HasExecute(view)
    THEN LET g == graphql_response(req, st, view)
         IN  IF g.raised # None
             THEN Raises(g.raised, g.st)
             ELSE RunHooks(view, req, g.st)
    ELSE LET st1 == [st EXCEPT !.dispatched = TRUE]
         IN  IF WsgiResult(view) # None
             THEN Returns(WsgiResult(view), Called(st1, view, "wsgi"))
             ELSE RunHooks(view, req, st1)

\* Lines 96-127: the first call raised TypeError.
ClassBased(h, req, st) ==
    IF Factory(h) # None
    THEN RunHooks(Factory(h), req, Called(st, h, "factory"))
    ELSE HandlerAsView(h, req, st)

_dispatch_request(rts, req) ==
    LET route == path_matches_route(rts, req.path)
        st0 == Start(req)
    IN  IF Truthy(route)
        THEN LET h == Lookup(rts, route)
             IN  IF ~Accepts2(h)
                 THEN ClassBased(h, req, st0)
                 ELSE LET st1 == [Called(st0, h, "call")
                                    EXCEPT !.resp = IF Body2(h) = None
                                                    THEN [@ EXCEPT !.text = h]
                                                    ELSE @]
                      IN  CASE Body2(h) = None -> Returns("resp", st1)
                            [] Body2(h) = "TypeError" -> ClassBased(h, req, st1)
                            [] OTHER -> Raises(Body2(h), st1)
        ELSE Returns("resp", default_response(st0))

\* callable(value) for what dispatch returns: a Response renders itself when
\* called; wsgi_app returns a list of byte strings, wsgi_view an object that
\* is itself callable.
Callable(value) == value \in {"resp", "view_iter"}

\* __wsgi_app: dispatch, then call whatever dispatch returned with
\* (environ, start_response) and return the result of that call.
__wsgi_app(rts, req) ==
    LET d == _dispatch_request(rts, req)
    IN  [dispatch |-> d,
         raised |-> IF d.raised # None THEN d.raised
                    ELSE IF Callable(d.ret) THEN None ELSE "TypeError",
         ret |-> IF d.raised # None \/ ~Callable(d.ret) THEN None
                 ELSE IF d.ret = "resp" THEN <<"rendered", d.resp>>
                 ELSE <<"called", d.ret>>]

\* ------------------------------------------------ registration and mounts

\* A registration that stores without looking at check_existing.
add_route_unchecked(rts, route, view, check_existing) ==
    [raised |-> None, routes |-> SetItem(rts, route, view)]

\* add_route(route, view, check_existing=...): the assert, then the store.
add_route(rts, route, view, check_existing) ==
    IF check_existing /\ HasRoute(rts, route)
    THEN [raised |-> "AssertionError", routes |-> rts]
    ELSE [raised |-> None, routes |-> SetItem(rts, route, view)]

\* The applications handed to mount, and the prefixes they are mounted at.
\* _wsgi_app is the bound method that serves through WhiteNoise.
MountApps == {"admin_app", "blog_app"}
Prefixes == {"/", "/api", "/files"}
MountPaths == {"/", "/api", "/api/users", "/files", "/other"}

\* self.apps.update({route: wsgi_app})
mount(table, route, app) ==
    [p \in DOMAIN table \cup {route} |-> IF p = route THEN app ELSE table[p]]

\* The prefixes DispatcherMiddleware tries for a path, longest first: the
\* path itself, then the path with trailing segments stripped.
Scripts(path) ==
    CASE path = "/api/users" -> <<"/api/users", "/api">>
      [] path = "/" -> <<"/">>
      [] OTHER -> <<path>>

RECURSIVE FirstMounted(_, _, _, _)
FirstMounted(mounts, scripts, i, main) ==
    IF i > Len(scripts) THEN main
    ELSE IF scripts[i] \in DOMAIN mounts THEN mounts[scripts[i]]
    ELSE FirstMounted(mounts, scripts, i + 1, main)

\* wsgi_app: copy the table, pop "/" as the main application, and let
\* DispatcherMiddleware(main, apps) pick the application for the path.
wsgi_app(table, path) ==
    LET main == table["/"]
        rest == [p \in DOMAIN table \ {"/"} |-> table[p]]
    IN  [main |-> main, app |-> FirstMounted(rest, Scripts(path), 1, main)]

\* ------------------------------------------------------------- sessions

Callers == {"t1", "t2"}
BaseUrls == {"http://app", "http://testserver"}

\* A RequestsSession: which construction it is, and the prefix its WSGI
\* adapter is mounted at.  NoSession stands for None in session-valued places.
NoSession == [id |-> 0, base_url |-> None]
RequestsSession(n, url) == [id |-> n, base_url |-> url]

\* ----------------------------------------------------------- the machine

NoDispatch ==
    [raised |-> None, ret |-> None, calls |-> <<>>, resp |-> None,
     dispatched |-> FALSE]

Observed(op, args, raised, ret, d) ==
    [op |-> op, args |-> args, raised |-> raised, ret |-> ret, d |-> d]

\* The state __init__ leaves: no routes, "/" mounted, no cached session.
Init ==
    /\ routes = <<>>
    /\ apps = [p \in {"/"} |-> "_wsgi_app"]
    /\ _session = NoSession
    /\ registered = {}
    /\ adds = 0
    /\ last = Observed("__init__", None, None, None, NoDispatch)
    /\ pc = [t \in Callers |-> "idle"]
    /\ base_url = [t \in Callers |-> None]
    /\ session = [t \in Callers |-> NoSession]
    /\ returned = [t \in Callers |-> NoSession]
    /\ created = 0

SessionVars == <<_session, pc, base_url, session, returned, created>>
RouteVars == <<routes, registered, adds>>

\* api.add_route(route, view, check_existing=check_existing)
AddRoute(P, H) ==
    /\ adds < MaxAdds
    /\ \E route \in P, view \in H, check_existing \in BOOLEAN :
          LET r == add_route(routes, route, view, check_existing)
          IN  /\ routes' = r.routes
              /\ registered' = IF r.raised = None
                               THEN registered \cup {<<route, view>>}
                               ELSE registered
              /\ last' = Observed("add_route", <<route, view, check_existing>>,
                                  r.raised, None, NoDispatch)
    /\ adds' = adds + 1
    /\ UNCHANGED <<apps, SessionVars>>

\* One inbound request served by __wsgi_app.
ServeRequest(P, B) ==
    /\ \E path \in P, method \in Methods, body \in B :
          LET req == Request(path, method, body)
              r == __wsgi_app(routes, req)
          IN  last' = Observed("__wsgi_app", <<path, method, body>>,
                               r.raised, r.ret, r.dispatch)
    /\ UNCHANGED <<RouteVars, apps, SessionVars>>

\* api.url_for(view)
UrlFor(H) ==
    /\ \E view \in H :
          LET r == url_for(routes, view)
          IN  last' = Observed("url_for", view, r.raised, r.ret, NoDispatch)
    /\ UNCHANGED <<RouteVars, apps, SessionVars>>

\* api.mount(route, wsgi_app)
Mount ==
    /\ \E route \in Prefixes, app \in MountApps :
          /\ apps' = mount(apps, route, app)
          /\ last' = Observed("mount", <<route, app>>, None, None, NoDispatch)
    /\ UNCHANGED <<RouteVars, SessionVars>>

\* api(environ, start_response): __call__ -> wsgi_app
Call ==
    /\ \E path \in MountPaths :
          LET r == wsgi_app(apps, path)
          IN  last' = Observed("wsgi_app", path, None, r, NoDispatch)
    /\ UNCHANGED <<RouteVars, apps, SessionVars>>

\* session(base_url), one caller, statement by statement.
SessionEnter(t) ==
    /\ pc[t] = "idle"
    /\ \E url \in BaseUrls : base_url' = [base_url EXCEPT ![t] = url]
    /\ pc' = [pc EXCEPT ![t] = "189"]
    /\ UNCHANGED <<RouteVars, apps, last, _session, session, returned, created>>

\* line 189: if self._session is None
SessionTest(t) ==
    /\ pc[t] = "189"
    /\ pc' = [pc EXCEPT ![t] = IF _session = NoSession THEN "190" ELSE "193"]
    /\ UNCHANGED <<RouteVars, apps, last, _session, base_url, session, returned,
                   created>>

\* lines 190-191: session = RequestsSession(); session.mount(base_url, ...)
SessionCreate(t) ==
    /\ pc[t] = "190"
    /\ created' = created + 1
    /\ session' = [session EXCEPT ![t] = RequestsSession(created + 1, base_url[t])]
    /\ pc' = [pc EXCEPT ![t] = "192"]
    /\ UNCHANGED <<RouteVars, apps, last, _session, base_url, returned>>

\* line 192: self._session = session
SessionStore(t) ==
    /\ pc[t] = "192"
    /\ _session' = session[t]
    /\ pc' = [pc EXCEPT ![t] = "193"]
    /\ UNCHANGED <<RouteVars, apps, last, base_url, session, returned, created>>

\* line 193: return self._session
SessionReturn(t) ==
    /\ pc[t] = "193"
    /\ returned' = [returned EXCEPT ![t] = _session]
    /\ pc' = [pc EXCEPT ![t] = "idle"]
    /\ base_url' = [base_url EXCEPT ![t] = None]
    /\ session' = [session EXCEPT ![t] = NoSession]
    /\ UNCHANGED <<RouteVars, apps, last, _session, created>>

\* Registration, lookup and reverse lookup over plain handlers.
AddRouterRoute == AddRoute(Paths, RouterHandlers)
ServeRouterRequest == ServeRequest(ReqPaths, {"text"})
ReverseLookup == UrlFor(RouterHandlers)
NextRouter == AddRouterRoute \/ ServeRouterRequest \/ ReverseLookup
SpecRouter == Init /\ [][NextRouter]_vars

\* Every handler shape behind one route.
AddShapedRoute == AddRoute({"/"}, Handlers)
ServeShapedRequest == ServeRequest({"/", "/missing"}, Bodies)
NextDispatch == AddShapedRoute \/ ServeShapedRequest
SpecDispatch == Init /\ [][NextDispatch]_vars

\* The mount table behind __call__.
NextMount == Mount \/ Call
SpecMount == Init /\ [][NextMount]_vars

\* Concurrent callers of session().
NextSession ==
    \E t \in Callers :
        \/ SessionEnter(t)
        \/ SessionTest(t)
        \/ SessionCreate(t)
        \/ SessionStore(t)
        \/ SessionReturn(t)
SpecSession == Init /\ [][NextSession]_vars

Next == NextRouter \/ NextDispatch \/ NextMount \/ NextSession
Spec == Init /\ [][Next]_vars

\* ----------------------------------------------------------- properties

\* The last call was a request served by __wsgi_app; its path and method,
\* the view stored for that path, and the view instance hooks run on.
Served == last.op = "__wsgi_app"
ServedPath == last.args[1]
ServedMethod == last.args[2]
ServedRequest == Request(last.args[1], last.args[2], last.args[3])
Routed == Served /\ HasRoute(routes, ServedPath)
RoutedView == Lookup(routes, ServedPath)
Instance(h) == IF Factory(h) # None THEN Factory(h) ELSE h

IsHookCall(c) == c[2] \in HookNames
HookCalls(calls) == SelectSeq(calls, IsHookCall)
IsExecuteCall(c) == c[2] = "execute"
ExecuteCalls(calls) == SelectSeq(calls, IsExecuteCall)
IsPrefix(s, t) == Len(s) <= Len(t) /\ s = SubSeq(t, 1, Len(s))

\* C1: when the view stored for the path accepts (req, resp) and its body
\* raises an error -- TypeError included -- _dispatch_request ends by raising
\* that error: it makes no further call, leaves req.dispatched unset and
\* returns nothing.
C1_HandlerErrorPropagates ==
    (Routed /\ Accepts2(RoutedView) /\ Body2(RoutedView) # None)
        => /\ last.d.raised = Body2(RoutedView)
           /\ last.d.ret = None
           /\ last.d.calls = << <<RoutedView, "call">> >>
           /\ ~last.d.dispatched

\* C2: a request whose path is no key of the route table is answered, for
\* every method, with status 404 and text "Not found.", and no call is made
\* into any registered view.
C2_UnroutedIsNotFound ==
    (Served /\ ~HasRoute(routes, ServedPath))
        => /\ last.d.raised = None
           /\ last.d.ret = "resp"
           /\ last.d.resp.status_code = 404
           /\ last.d.resp.text = "Not found."
           /\ last.d.calls = <<>>
           /\ last.raised = None
           /\ last.ret = <<"rendered", last.d.resp>>

C2_Witness ==
    /\ Served
    /\ ~HasRoute(routes, ServedPath)
    /\ Len(routes) = 2
    /\ ServedMethod = "POST"
    /\ last.d.resp.text = "Not found."

\* The step an add_route call takes, and what a served request calls into.
C3_AddStep ==
    (adds' = adds + 1 /\ HasRoute(routes, last'.args[1]))
        => IF last'.args[3]
           THEN last'.raised = "AssertionError" /\ routes' = routes
           ELSE /\ last'.raised = None
                /\ Lookup(routes', last'.args[1]) = last'.args[2]
                /\ Len(routes') = Len(routes)
                /\ \A i \in 1..Len(routes) :
                      routes[i][1] # last'.args[1] => routes'[i] = routes[i]
C3_ServesStoredView ==
    Routed => /\ Len(last.d.calls) > 0
              /\ \A i \in 1..Len(last.d.calls) : last.d.calls[i][1] = RoutedView

\* C3: add_route on a route already in the table raises and leaves the table
\* as it was when check_existing is true; with check_existing false it stores
\* the new view in place of the old one, and a request for a routed path calls
\* into the view now stored for it and into no other.
C3_DuplicateRoute == [][C3_AddStep]_vars /\ []C3_ServesStoredView

C3_Witness ==
    /\ Routed
    /\ \E old \in RouterHandlers :
          old # RoutedView /\ <<ServedPath, old>> \in registered
    /\ Len(last.d.calls) > 0
    /\ last.d.calls[1][1] = RoutedView

\* The views the cascade takes as class-based, and the hook calls expected.
C4_ClassBased(h) ==
    /\ ~Accepts2(h)
    /\ {"on_request", "on_get"} \subseteq Hooks(Instance(h))
    /\ (Factory(h) # None \/ WsgiResult(h) = None)
C4_Expected(h) == << <<Instance(h), "on_request">>, <<Instance(h), "on_get">> >>

\* C4: for a view instance with on_request and on_get that the cascade takes
\* as class-based (the instance a zero-argument factory returned, or the
\* stored object itself when it is not a sub-application), a GET request that
\* dispatch answers calls on_request and then on_get on it, once each, and no
\* other hook; a dispatch that ends in an error made a prefix of those calls.
C4_HooksInOrder ==
    (Routed /\ ServedMethod = "GET" /\ C4_ClassBased(RoutedView))
        => /\ last.d.raised = None
                => HookCalls(last.d.calls) = C4_Expected(RoutedView)
           /\ IsPrefix(HookCalls(last.d.calls), C4_Expected(RoutedView))

C4_Witness ==
    /\ Routed
    /\ ServedMethod = "GET"
    /\ RoutedView = "resource"
    /\ last.d.raised = None
    /\ HookCalls(last.d.calls) = C4_Expected("resource")

\* The views that reach the sub-application call and answer it.
C5_SubApplication(h) ==
    ~Accepts2(h) /\ Factory(h) = None /\ ~HasExecute(h) /\ WsgiResult(h) # None

\* C5: when the stored view is a sub-application and is called with environ
\* and start_response, req.dispatched is set and __wsgi_app returns what the
\* sub-application returned, as it is.
C5_RawResultPassesThrough ==
    (Routed /\ C5_SubApplication(RoutedView))
        => /\ last.d.dispatched
           /\ last.d.ret = WsgiResult(RoutedView)
           /\ last.raised = None
           /\ last.ret = WsgiResult(RoutedView)

\* C6 as stated: url_for(view) returns P for every route P at which view is or
\* was registered, and raises ValueError for a view never registered.
C6_EveryRegisteredRoute ==
    last.op = "url_for"
        => /\ \A p \in Paths :
                 <<p, last.args>> \in registered
                    => last.raised = None /\ last.ret = p
           /\ (\A p \in Paths : <<p, last.args>> \notin registered)
                 => last.raised = "ValueError"

\* The positions of the table that currently store view.
C6_Stored(view) == {i \in 1..Len(routes) : routes[i][2] = view}

\* C6 as amended: url_for(view) returns the earliest-inserted route of the
\* table that currently stores view (P itself when P is the only one), and
\* raises ValueError when no route currently stores view.
C6_FirstStoredRoute ==
    last.op = "url_for"
        => IF C6_Stored(last.args) = {}
           THEN last.raised = "ValueError" /\ last.ret = None
           ELSE /\ last.raised = None
                /\ \E i \in C6_Stored(last.args) :
                      /\ last.ret = routes[i][1]
                      /\ \A j \in C6_Stored(last.args) : i <= j

C6_Witness ==
    /\ last.op = "url_for"
    /\ Cardinality(C6_Stored(last.args)) = 2
    /\ last.ret = routes[1][1]
    /\ \E p \in Paths : <<p, last.args>> \in registered /\ p # last.ret

\* C7: when the view instance resolved for the route has execute and the
\* request carries a query, schema execution is called exactly once, the
\* response is built from it, and no hook of the view is called.
C7_ExecuteThenStop ==
    (Routed /\ ~Accepts2(RoutedView) /\ HasExecute(Instance(RoutedView))
            /\ _resolve_graphql_query(ServedRequest).raised = None)
        => /\ last.d.raised = None
           /\ ExecuteCalls(last.d.calls) = << <<Instance(RoutedView), "execute">> >>
           /\ last.d.resp.media # None
           /\ HookCalls(last.d.calls) = <<>>

\* C8: the "/" entry of the mount table is always the static-file
\* application installed by __init__, and wsgi_app always takes it as main.
C8_RootIsStatic ==
    /\ apps["/"] = "_wsgi_app"
    /\ last.op = "wsgi_app" => last.ret.main = "_wsgi_app"

\* C9: under every interleaving of session() calls one RequestsSession is
\* constructed at most, and all calls return the same instance.
C9_OneSession ==
    /\ created <= 1
    /\ \A t, u \in Callers :
          (returned[t] # NoSession /\ returned[u] # NoSession)
              => returned[t] = returned[u]

\* C10: when a dispatch ends, req.dispatched is set only if the stored view
\* was called as a sub-application and its result was returned.
C10_DispatchedMeansRawApp ==
    (Served /\ last.d.dispatched)
        => /\ Routed
           /\ last.d.raised = None
           /\ WsgiResult(RoutedView) # None
           /\ last.d.ret = WsgiResult(RoutedView)

====
